---- MODULE Spec2Model ----
(***************************************************************************)
(* License verification service of src/bot.py: the Flask routes /verify    *)
(* and /check_status and the Discord commands that change the license      *)
(* file, the penalty tracker and the ban set.                              *)
(*                                                                         *)
(* Time is the value of time.time(), counted in ticks of 1/TicksPerSec     *)
(* second, so that int(penalty_end - time.time()) truncates.               *)
(***************************************************************************)
EXTENDS Integers, Sequences, FiniteSets, TLC

\* ---------------------------------------------------------------- bounds
TicksPerSec == 1
MaxTime == 20
MaxCount == 7
MaxAttempts == 8
NumThreads == 2

Users == {"u1"}
Keys == {"k1", "k2"}
Machines == {"m1", "m2"}
\* A field that is missing from the JSON body or empty: `not x` is true.
Empty == ""
\* A response without a "penalty" field.
NoField == -1

\* ------------------------------------------------------ program constants
\* A Python list read at index i: 0-based, a negative i counts from the end.
ListItem(list, i) == IF i < 0 THEN list[Len(list) + i + 1] ELSE list[i + 1]

penalty_thresholds == <<2, 3, 5, 10, 12>>
max_penalty == ListItem(penalty_thresholds, -1)

VARIABLES
    licenses,          \* credentials.json: user -> key (a dict)
    machine_bindings,  \* machine_bindings.json and its in-memory copy
    failed_attempts,   \* user -> [count, penalty_end]
    banned_users,      \* set of banned users
    WEBHOOK_URL,       \* TRUE iff the environment sets WEBHOOK_URL
    now,               \* time.time(), in ticks
    resp,              \* the response to the last request or command
    posted,            \* the notification that request delivered to the webhook
    decisions,         \* per user, the answers to a run of failed attempts
    pc,                \* per request thread, the place it has reached
    request,           \* per request thread, the JSON body it serves
    local              \* per request thread, its local variables and answer

store == <<licenses, machine_bindings, failed_attempts, banned_users>>
threads == <<pc, request, local>>
vars == <<licenses, machine_bindings, failed_attempts, banned_users,
          WEBHOOK_URL, now, resp, posted, decisions, pc, request, local>>
\* what a single request or command leaves alone
aside == <<WEBHOOK_URL, now, decisions, threads>>

\* The request threads of the Flask server (app.run serves each request on
\* a thread of its own).
Threads == 1 .. NumThreads
NoRequest == [user |-> Empty, key |-> Empty, machine |-> Empty]
\* count: the value `+=` has read; ref: the dict it read it from;
\* attempt_count: the local of that name; answer: the response returned;
\* sent: the notification delivered
NoLocals == [count |-> 0, ref |-> 0, attempt_count |-> 0,
             answer |-> [code |-> 0, status |-> "", penalty |-> NoField,
                         reason |-> ""],
             sent |-> "none"]

\* ------------------------------------------------------------ dict helpers
DictSet(d, k, v) == [x \in (DOMAIN d) \cup {k} |-> IF x = k THEN v ELSE d[x]]
DictPop(d, k) == [x \in (DOMAIN d) \ {k} |-> d[x]]
EmptyDict == [x \in {} |-> 0]

Response(code, status, penalty, reason) ==
    [code |-> code, status |-> status, penalty |-> penalty, reason |-> reason]

\* ---------------------------------------------------------------- /verify
\* Each condition of the route is preceded by a faulty variant of it, used to
\* show that the properties below tell the route from the variant.

\* faulty variant: the machine identifier is not required
MissingField_NoMachine(u, k, m) == u = Empty \/ k = Empty
\* `not user_name or not key or not machine_id`
MissingField(u, k, m) == u = Empty \/ k = Empty \/ m = Empty
\* faulty variant: the ban check is skipped
IsBanned_Never(u) == FALSE
IsBanned(u) == u \in banned_users

\* faulty variant: the last second of a penalty is not enforced
UnderPenalty_Short(u) ==
    /\ u \in DOMAIN failed_attempts
    /\ failed_attempts[u].penalty_end > now + TicksPerSec
\* faulty variant: the penalty check is skipped
UnderPenalty_Never(u) == FALSE
UnderPenalty(u) ==
    /\ u \in DOMAIN failed_attempts
    /\ failed_attempts[u].penalty_end > now

\* int(penalty_info["penalty_end"] - time.time()): whole seconds, truncated
remaining_time(u) == (failed_attempts[u].penalty_end - now) \div TicksPerSec

\* faulty variant: a user without a license record passes the key check
KeyMatches_NoRecord(u, k) == u \notin DOMAIN licenses \/ licenses[u] = k
\* `user_name in licenses and licenses[user_name]["key"] == key`
KeyMatches(u, k) == u \in DOMAIN licenses /\ licenses[u] = k

\* faulty variant: every matching key binds again
NotBound_Always(u) == TRUE
NotBound(u) == u \notin DOMAIN machine_bindings

\* faulty variant: the bound machine is not compared
MachineMismatch_Ignored(u, m) == FALSE
MachineMismatch(u, m) == machine_bindings[u] # m

\* machine_bindings[user_name] = machine_id; save_machine_bindings(...)
BindMachine(u, m) == DictSet(machine_bindings, u, m)

\* faulty variant: success keeps the failure record
ResetAttempts_Keeps(u) == failed_attempts
\* failed_attempts.pop(user_name, None)
ResetAttempts(u) == DictPop(failed_attempts, u)

\* failed_attempts.setdefault(user, {count: 0, penalty_end: 0}); count += 1
IncrementAttempts(u) ==
    LET cur == IF u \in DOMAIN failed_attempts
               THEN failed_attempts[u]
               ELSE [count |-> 0, penalty_end |-> 0]
    IN DictSet(failed_attempts, u, [cur EXCEPT !.count = cur.count + 1])

IsBanThreshold(attempt_count) == attempt_count > Len(penalty_thresholds)
IsPenaltyTier(attempt_count) == attempt_count > 1
penalty_index(attempt_count) == attempt_count - 2
penalty_duration(attempt_count) ==
    ListItem(penalty_thresholds, penalty_index(attempt_count))

\* failed_attempts[user]["penalty_end"] = time.time() + penalty_duration
SetPenalty(attempts, u, attempt_count) ==
    [attempts EXCEPT ![u].penalty_end =
        now + penalty_duration(attempt_count) * TicksPerSec]

\* The responses of /verify.
MissingResponse ==
    Response(400, "error", NoField, "Missing username, key, or machine_id")
BannedResponse == Response(403, "banned", max_penalty, "User is banned.")
BlockedResponse(seconds) == Response(429, "error", seconds, "Blocked")
MismatchResponse == Response(403, "denied", NoField, "machine mismatch")
SuccessResponse == Response(200, "success", NoField, "")
FailureResponse == Response(401, "failure", NoField, "Invalid license key.")
\* internal_error, the handler Flask runs when the route raises
InternalError == Response(500, "error", NoField, "Internal server error")

\* if WEBHOOK_URL: requests.post(WEBHOOK_URL, ...), then return `answer`.
\* The post is not guarded: when it raises (ok = FALSE) the route raises.
Notify(kind, ok, answer) ==
    IF ~WEBHOOK_URL THEN resp' = answer /\ posted' = "none"
    ELSE IF ok THEN resp' = answer /\ posted' = kind
    ELSE resp' = InternalError /\ posted' = "none"

Reply(answer) == resp' = answer /\ posted' = "none"

\* lines 158-193: the attempt is counted, then the new count decides
failure_handling(u, ok) ==
    LET incremented == IncrementAttempts(u)
        attempt_count == incremented[u].count
    IN /\ attempt_count <= MaxCount
       /\ UNCHANGED <<licenses, machine_bindings>>
       /\ IF IsBanThreshold(attempt_count) THEN
             /\ failed_attempts' = incremented
             /\ banned_users' = banned_users \cup {u}
             /\ Notify("ban", ok, BannedResponse)
          ELSE IF IsPenaltyTier(attempt_count) THEN
             /\ failed_attempts' = SetPenalty(incremented, u, attempt_count)
             /\ UNCHANGED banned_users
             /\ Notify("failed", ok,
                       BlockedResponse(penalty_duration(attempt_count)))
          ELSE
             /\ failed_attempts' = incremented
             /\ UNCHANGED banned_users
             /\ Notify("first", ok, FailureResponse)

verify(u, k, m) ==
    IF MissingField(u, k, m) THEN
       Reply(MissingResponse) /\ UNCHANGED store
    ELSE IF IsBanned(u) THEN
       Reply(BannedResponse) /\ UNCHANGED store
    ELSE IF UnderPenalty(u) THEN
       Reply(BlockedResponse(remaining_time(u))) /\ UNCHANGED store
    ELSE IF KeyMatches(u, k) THEN
       IF NotBound(u) THEN
          /\ machine_bindings' = BindMachine(u, m)
          /\ failed_attempts' = ResetAttempts(u)
          /\ Reply(SuccessResponse)
          /\ UNCHANGED <<licenses, banned_users>>
       ELSE IF MachineMismatch(u, m) THEN
          Reply(MismatchResponse) /\ UNCHANGED store
       ELSE
          /\ failed_attempts' = ResetAttempts(u)
          /\ Reply(SuccessResponse)
          /\ UNCHANGED <<licenses, machine_bindings, banned_users>>
    ELSE
       \E ok \in BOOLEAN : failure_handling(u, ok)

\* The process has just started: failed_attempts and banned_users are
\* empty, nothing is bound, no request has been served.
InitProcess ==
    /\ machine_bindings = EmptyDict
    /\ failed_attempts = EmptyDict
    /\ banned_users = {}
    /\ WEBHOOK_URL \in BOOLEAN
    /\ now = 0
    /\ resp = Response(0, "", NoField, "")
    /\ posted = "none"
    /\ decisions = [u \in Users |-> << >>]
    /\ pc = [t \in Threads |-> "idle"]
    /\ request = [t \in Threads |-> NoRequest]
    /\ local = [t \in Threads |-> NoLocals]

Init ==
    /\ licenses = EmptyDict
    /\ InitProcess

\* ------------------------------------------------------------ /check_status
\* faulty variant: a user without a binding passes
BoundTo_OrUnbound(u, m) ==
    u \notin DOMAIN machine_bindings \/ machine_bindings[u] = m
\* `user_name in machine_bindings and machine_bindings[user_name] == machine_id`
BoundTo(u, m) == u \in DOMAIN machine_bindings /\ machine_bindings[u] = m

\* faulty variant: a status check of an unbound user binds the machine
check_status_Binds(u, m) ==
    /\ posted' = "none"
    /\ UNCHANGED <<licenses, failed_attempts, banned_users>>
    /\ IF u = Empty \/ m = Empty THEN
          /\ resp' = Response(400, "error", NoField, "Missing username or machine_id")
          /\ UNCHANGED machine_bindings
       ELSE IF u \in banned_users THEN
          /\ resp' = Response(403, "banned", NoField, "User is banned.")
          /\ UNCHANGED machine_bindings
       ELSE IF BoundTo(u, m) THEN
          /\ resp' = Response(200, "allowed", NoField, "")
          /\ UNCHANGED machine_bindings
       ELSE
          /\ resp' = Response(403, "denied", NoField, "machine mismatch or not bound")
          /\ machine_bindings' = IF u \in DOMAIN machine_bindings
                                 THEN machine_bindings
                                 ELSE DictSet(machine_bindings, u, m)
check_status(u, m) ==
    /\ posted' = "none"
    /\ UNCHANGED store
    /\ IF u = Empty \/ m = Empty THEN
          resp' = Response(400, "error", NoField, "Missing username or machine_id")
       ELSE IF u \in banned_users THEN
          resp' = Response(403, "banned", NoField, "User is banned.")
       ELSE IF BoundTo(u, m) THEN
          resp' = Response(200, "allowed", NoField, "")
       ELSE
          resp' = Response(403, "denied", NoField, "machine mismatch or not bound")

\* --------------------------------------------------------- Discord commands
\* A command's reply is the message it sends to the channel.
Command(op, reply) ==
    /\ resp' = Response(0, op, NoField, reply)
    /\ posted' = "none"

\* license_key is the random string of generate_license_key()
generate_license(u, license_key) ==
    IF u \in DOMAIN licenses THEN
       /\ Command("generate", "already has a license")
       /\ UNCHANGED store
    ELSE
       /\ licenses' = DictSet(licenses, u, license_key)
       /\ Command("generate", "generated")
       /\ UNCHANGED <<machine_bindings, failed_attempts, banned_users>>

\* faulty variant: deleting the license also forgets the machine
delete_license_Unbinds(u) ==
    IF u \notin DOMAIN licenses THEN
       /\ Command("delete_license", "no license found")
       /\ UNCHANGED store
    ELSE
       /\ licenses' = DictPop(licenses, u)
       /\ machine_bindings' = DictPop(machine_bindings, u)
       /\ Command("delete_license", "deleted")
       /\ UNCHANGED <<failed_attempts, banned_users>>
delete_license(u) ==
    IF u \notin DOMAIN licenses THEN
       /\ Command("delete_license", "no license found")
       /\ UNCHANGED store
    ELSE
       /\ licenses' = DictPop(licenses, u)
       /\ Command("delete_license", "deleted")
       /\ UNCHANGED <<machine_bindings, failed_attempts, banned_users>>

\* faulty variant: the reset also lifts the ban
reset_penalty_Unbans(u) ==
    IF u \in DOMAIN failed_attempts THEN
       /\ failed_attempts' = DictPop(failed_attempts, u)
       /\ banned_users' = banned_users \ {u}
       /\ Command("reset_penalty", "reset")
       /\ UNCHANGED <<licenses, machine_bindings>>
    ELSE
       /\ Command("reset_penalty", "no penalty found")
       /\ UNCHANGED store
reset_penalty(u) ==
    IF u \in DOMAIN failed_attempts THEN
       /\ failed_attempts' = DictPop(failed_attempts, u)
       /\ Command("reset_penalty", "reset")
       /\ UNCHANGED <<licenses, machine_bindings, banned_users>>
    ELSE
       /\ Command("reset_penalty", "no penalty found")
       /\ UNCHANGED store

update_license(u, new_key) ==
    IF u \notin DOMAIN licenses THEN
       /\ Command("update_license", "no license found")
       /\ UNCHANGED store
    ELSE
       /\ licenses' = DictSet(licenses, u, new_key)
       /\ Command("update_license", "updated")
       /\ UNCHANGED <<machine_bindings, failed_attempts, banned_users>>

clear_licenses ==
    /\ licenses' = EmptyDict
    /\ Command("clear_licenses", "cleared")
    /\ UNCHANGED <<machine_bindings, failed_attempts, banned_users>>

\* faulty variant: the unban also forgets the failures
unban_user_Resets(u) ==
    IF u \in banned_users THEN
       /\ banned_users' = banned_users \ {u}
       /\ failed_attempts' = DictPop(failed_attempts, u)
       /\ Command("unban_user", "unbanned")
       /\ UNCHANGED <<licenses, machine_bindings>>
    ELSE
       /\ Command("unban_user", "not banned")
       /\ UNCHANGED store
unban_user(u) ==
    IF u \in banned_users THEN
       /\ banned_users' = banned_users \ {u}
       /\ Command("unban_user", "unbanned")
       /\ UNCHANGED <<licenses, machine_bindings, failed_attempts>>
    ELSE
       /\ Command("unban_user", "not banned")
       /\ UNCHANGED store

ban_user(u) ==
    /\ banned_users' = banned_users \cup {u}
    /\ Command("ban_user", "banned")
    /\ UNCHANGED <<licenses, machine_bindings, failed_attempts>>

\* ------------------------------------------------------------ specification
\* The clock moves on between requests.
Tick ==
    /\ now < MaxTime
    /\ now' = now + 1
    /\ UNCHANGED <<store, WEBHOOK_URL, resp, posted, decisions, threads>>

VerifyRequest ==
    \E u \in Users \cup {Empty}, k \in Keys \cup {Empty},
       m \in Machines \cup {Empty} :
        /\ verify(u, k, m)
        /\ UNCHANGED aside

CheckStatusRequest ==
    \E u \in Users \cup {Empty}, m \in Machines \cup {Empty} :
        /\ check_status(u, m)
        /\ UNCHANGED aside

GenerateCommand ==
    \E u \in Users, k \in Keys :
        generate_license(u, k) /\ UNCHANGED aside

DeleteCommand ==
    \E u \in Users : delete_license(u) /\ UNCHANGED aside

ResetPenaltyCommand ==
    \E u \in Users : reset_penalty(u) /\ UNCHANGED aside

UpdateCommand ==
    \E u \in Users, k \in Keys :
        update_license(u, k) /\ UNCHANGED aside

ClearCommand == clear_licenses /\ UNCHANGED aside

UnbanCommand ==
    \E u \in Users : unban_user(u) /\ UNCHANGED aside

BanCommand ==
    \E u \in Users : ban_user(u) /\ UNCHANGED aside

Next ==
    \/ Tick
    \/ VerifyRequest
    \/ CheckStatusRequest
    \/ GenerateCommand
    \/ DeleteCommand
    \/ ResetPenaltyCommand
    \/ UpdateCommand
    \/ ClearCommand
    \/ UnbanCommand
    \/ BanCommand

Spec == Init /\ [][Next]_vars

\* ---------------------------------------------- a run of failed attempts
\* What the caller is told, as the decision the response stands for.
Decision(r) ==
    IF r.code = 200 THEN <<"Allowed", NoField>>
    ELSE IF r.code = 401 THEN <<"Denied", NoField>>
    ELSE IF r.code = 429 THEN <<"RateLimited", r.penalty>>
    ELSE IF r.code = 403 /\ r.status = "banned" THEN <<"Banned", NoField>>
    ELSE IF r.code = 403 THEN <<"Denied", NoField>>
    ELSE IF r.code = 400 THEN <<"BadRequest", NoField>>
    ELSE <<"InternalError", NoField>>

\* The license store the run starts with: none, or one key per user.
InitLadder ==
    /\ Init
    /\ WEBHOOK_URL

LicenseIssued ==
    /\ \A u \in Users : decisions[u] = << >>
    /\ \E u \in Users, k \in Keys :
          generate_license(u, k) /\ UNCHANGED aside

\* A Verify that fails on the key, sent once the previous penalty is over,
\* with the operator notification delivered.
FailedAttempt ==
    \E u \in Users, k \in Keys, m \in Machines :
        /\ Len(decisions[u]) < MaxAttempts
        /\ ~KeyMatches(u, k)
        /\ ~UnderPenalty(u)
        /\ verify(u, k, m)
        /\ resp' # InternalError
        /\ decisions' = [decisions EXCEPT ![u] = Append(@, Decision(resp'))]
        /\ UNCHANGED <<WEBHOOK_URL, now, threads>>

NextLadder == Tick \/ LicenseIssued \/ FailedAttempt

SpecLadder == InitLadder /\ [][NextLadder]_vars

\* --------------------------------------------- /verify, thread by thread
\* One step per access to the shared dicts and sets: the route takes no lock,
\* so the threads' steps interleave.  The clock stands still: the requests
\* are simultaneous.
Finish(t, answer, sent) ==
    /\ pc' = [pc EXCEPT ![t] = "done"]
    /\ local' = [local EXCEPT ![t].answer = answer, ![t].sent = sent]

\* requests.post, then return; the route raises when the post raises
FinishNotified(t, kind, ok, answer) ==
    IF ~WEBHOOK_URL THEN Finish(t, answer, "none")
    ELSE IF ok THEN Finish(t, answer, kind)
    ELSE Finish(t, InternalError, "none")

Goto(t, place) == pc' = [pc EXCEPT ![t] = place] /\ UNCHANGED local

Receive(t) ==
    /\ pc[t] = "idle"
    /\ \E u \in Users, k \in Keys, m \in Machines :
          request' = [request EXCEPT ![t] =
                         [user |-> u, key |-> k, machine |-> m]]
    /\ pc' = [pc EXCEPT ![t] = "ban_check"]
    /\ UNCHANGED <<store, local>>

\* lines 128-133
BanCheck(t) ==
    /\ pc[t] = "ban_check"
    /\ LET r == request[t]
       IN IF MissingField(r.user, r.key, r.machine) THEN
             Finish(t, MissingResponse, "none")
          ELSE IF IsBanned(r.user) THEN
             Finish(t, BannedResponse, "none")
          ELSE Goto(t, "penalty_check")
    /\ UNCHANGED <<store, request>>

\* line 136: `user_name in failed_attempts`
PenaltyCheck(t) ==
    /\ pc[t] = "penalty_check"
    /\ IF request[t].user \in DOMAIN failed_attempts
       THEN Goto(t, "penalty_read")
       ELSE Goto(t, "key_check")
    /\ UNCHANGED <<store, request>>

\* lines 137-140: failed_attempts[user_name] raises KeyError when the entry
\* has been popped since line 136
PenaltyRead(t) ==
    /\ pc[t] = "penalty_read"
    /\ LET u == request[t].user
       IN IF u \notin DOMAIN failed_attempts THEN
             Finish(t, InternalError, "none")
          ELSE IF UnderPenalty(u) THEN
             Finish(t, BlockedResponse(remaining_time(u)), "none")
          ELSE Goto(t, "key_check")
    /\ UNCHANGED <<store, request>>

\* lines 143-150: load_licenses(), the key, then the look at machine_bindings
KeyCheck(t) ==
    /\ pc[t] = "key_check"
    /\ LET r == request[t]
       IN IF KeyMatches(r.user, r.key) THEN
             IF NotBound(r.user) THEN Goto(t, "bind")
             ELSE IF MachineMismatch(r.user, r.machine) THEN
                Finish(t, MismatchResponse, "none")
             ELSE Goto(t, "reset")
          ELSE Goto(t, "setdefault")
    /\ UNCHANGED <<store, request>>

\* lines 148-149
Bind(t) ==
    /\ pc[t] = "bind"
    /\ machine_bindings' = BindMachine(request[t].user, request[t].machine)
    /\ Goto(t, "reset")
    /\ UNCHANGED <<licenses, failed_attempts, banned_users, request>>

\* lines 155-156
Reset(t) ==
    /\ pc[t] = "reset"
    /\ failed_attempts' = ResetAttempts(request[t].user)
    /\ Finish(t, SuccessResponse, "none")
    /\ UNCHANGED <<licenses, machine_bindings, banned_users, request>>

\* line 159: the dict a thread creates is its own object
SetDefault(t) ==
    /\ pc[t] = "setdefault"
    /\ LET u == request[t].user
       IN failed_attempts' =
             IF u \in DOMAIN failed_attempts THEN failed_attempts
             ELSE DictSet(failed_attempts, u,
                          [count |-> 0, penalty_end |-> 0, ref |-> t])
    /\ Goto(t, "add_read")
    /\ UNCHANGED <<licenses, machine_bindings, banned_users, request>>

\* line 160, `+= 1`: the dict is looked up and its count read ...
AddRead(t) ==
    /\ pc[t] = "add_read"
    /\ LET u == request[t].user
       IN IF u \in DOMAIN failed_attempts THEN
             /\ local' = [local EXCEPT ![t].count = failed_attempts[u].count,
                                       ![t].ref = failed_attempts[u].ref]
             /\ pc' = [pc EXCEPT ![t] = "add_write"]
          ELSE Finish(t, InternalError, "none")
    /\ UNCHANGED <<store, request>>

\* ... and the sum is stored into the dict that was looked up
AddWrite(t) ==
    /\ pc[t] = "add_write"
    /\ LET u == request[t].user
       IN failed_attempts' =
             IF u \in DOMAIN failed_attempts
                   /\ failed_attempts[u].ref = local[t].ref
             THEN [failed_attempts EXCEPT ![u].count = local[t].count + 1]
             ELSE failed_attempts
    /\ Goto(t, "read_count")
    /\ UNCHANGED <<licenses, machine_bindings, banned_users, request>>

\* line 162
ReadCount(t) ==
    /\ pc[t] = "read_count"
    /\ LET u == request[t].user
       IN IF u \in DOMAIN failed_attempts THEN
             /\ local' = [local EXCEPT
                            ![t].attempt_count = failed_attempts[u].count]
             /\ pc' = [pc EXCEPT ![t] = "decide"]
          ELSE Finish(t, InternalError, "none")
    /\ UNCHANGED <<store, request>>

\* lines 165-193
Decide(t) ==
    /\ pc[t] = "decide"
    /\ LET u == request[t].user
           attempt_count == local[t].attempt_count
       IN \E ok \in BOOLEAN :
           IF IsBanThreshold(attempt_count) THEN
              /\ banned_users' = banned_users \cup {u}
              /\ FinishNotified(t, "ban", ok, BannedResponse)
              /\ UNCHANGED failed_attempts
           ELSE IF IsPenaltyTier(attempt_count) THEN
              IF u \in DOMAIN failed_attempts THEN
                 /\ failed_attempts' =
                       SetPenalty(failed_attempts, u, attempt_count)
                 /\ FinishNotified(t, "failed", ok,
                       BlockedResponse(penalty_duration(attempt_count)))
                 /\ UNCHANGED banned_users
              ELSE
                 /\ Finish(t, InternalError, "none")
                 /\ UNCHANGED <<failed_attempts, banned_users>>
           ELSE
              /\ FinishNotified(t, "first", ok, FailureResponse)
              /\ UNCHANGED <<failed_attempts, banned_users>>
    /\ UNCHANGED <<licenses, machine_bindings, request>>

\* The license store holds one key per user before the requests arrive.
InitConcurrent ==
    /\ \E k \in Keys : licenses = [u \in Users |-> k]
    /\ InitProcess

\* what a request thread leaves alone
serial == <<WEBHOOK_URL, now, resp, posted, decisions>>

NextConcurrent ==
    \/ \E t \in Threads : Receive(t) /\ UNCHANGED serial
    \/ \E t \in Threads : BanCheck(t) /\ UNCHANGED serial
    \/ \E t \in Threads : PenaltyCheck(t) /\ UNCHANGED serial
    \/ \E t \in Threads : PenaltyRead(t) /\ UNCHANGED serial
    \/ \E t \in Threads : KeyCheck(t) /\ UNCHANGED serial
    \/ \E t \in Threads : Bind(t) /\ UNCHANGED serial
    \/ \E t \in Threads : Reset(t) /\ UNCHANGED serial
    \/ \E t \in Threads : SetDefault(t) /\ UNCHANGED serial
    \/ \E t \in Threads : AddRead(t) /\ UNCHANGED serial
    \/ \E t \in Threads : AddWrite(t) /\ UNCHANGED serial
    \/ \E t \in Threads : ReadCount(t) /\ UNCHANGED serial
    \/ \E t \in Threads : Decide(t) /\ UNCHANGED serial

SpecConcurrent == InitConcurrent /\ [][NextConcurrent]_vars

\* ===================================================================
\* Properties of the request handlers, one request at a time (Spec)
\* ===================================================================
HasLicenseKey(u, k) == u \in DOMAIN licenses /\ licenses[u] = k
PenaltyActive(u) ==
    u \in DOMAIN failed_attempts /\ failed_attempts[u].penalty_end > now
FailCount(attempts, u) == IF u \in DOMAIN attempts THEN attempts[u].count ELSE 0
IsRateLimited(r, seconds) ==
    r.code = 429 /\ r.status = "error" /\ r.penalty = seconds
IsBannedAnswer(r) == r.code = 403 /\ r.status = "banned"
IsAllowed(r) == r.code = 200 /\ r.status = "success"
IsInvalidKey(r) == r.code = 401 /\ r.status = "failure" /\ r.penalty = NoField
IsMismatch(r) ==
    r.code = 403 /\ r.status = "denied" /\ r.reason = "machine mismatch"
IsBadRequest(r) == r.code = 400 /\ r.status = "error"
\* tiers[fail_count - 2], the tiers counted from zero
Tier(fail_count) == penalty_thresholds[fail_count - 1]
TierCount == Len(penalty_thresholds)

\* What failure handling does to user u, given whether the operator
\* notification is required to leave the decision alone.
FailureHandlingDecides(u) ==
    LET new == FailCount(failed_attempts, u) + 1
    IN /\ u \in DOMAIN failed_attempts'
       /\ failed_attempts'[u].count = new
       /\ IF new > TierCount THEN
             u \in banned_users' /\ IsBannedAnswer(resp')
          ELSE IF new = 1 THEN
             /\ IsInvalidKey(resp')
             /\ failed_attempts'[u].penalty_end = 0
             /\ banned_users' = banned_users
          ELSE
             /\ failed_attempts'[u].penalty_end = now + Tier(new) * TicksPerSec
             /\ IsRateLimited(resp', Tier(new))
             /\ banned_users' = banned_users

\* C1: for a fresh user the answers to consecutive failed attempts, each sent
\* after the previous penalty has expired, are Denied, RateLimited(2),
\* RateLimited(3), RateLimited(5), RateLimited(10), RateLimited(12), and Banned
\* for the 7th and every later one, after which the user is in the ban set.
ClaimedLadder ==
    << <<"Denied", NoField>>, <<"RateLimited", 2>>, <<"RateLimited", 3>>,
       <<"RateLimited", 5>>, <<"RateLimited", 10>>, <<"RateLimited", 12>> >>

C1_EscalationLadder ==
    \A u \in Users : \A i \in 1 .. Len(decisions[u]) :
        /\ decisions[u][i] = IF i <= Len(ClaimedLadder) THEN ClaimedLadder[i]
                             ELSE <<"Banned", NoField>>
        /\ i > Len(ClaimedLadder) => u \in banned_users

\* What the route answers instead: the ban falls on the 6th failed attempt
\* and the 12 s tier is never applied.
C1_LadderOfTheRoute ==
    \A u \in Users : \A i \in 1 .. Len(decisions[u]) :
        /\ decisions[u][i] = IF i < Len(ClaimedLadder) THEN ClaimedLadder[i]
                             ELSE <<"Banned", NoField>>
        /\ i >= Len(ClaimedLadder) => u \in banned_users

\* C2: failure handling is entered only when the license record is absent or
\* the key does not match; it adds exactly 1 to fail_count (creating it at 1)
\* and decides on the new value: above the 5 tiers the user joins the ban set
\* and Banned is returned; at 1 Denied(invalid key) is returned and
\* penalty_end is untouched; at 2..5 penalty_end = now + tiers[fail_count - 2]
\* and RateLimited(tiers[fail_count - 2]) is returned.
C2_FailureHandling ==
    [][\A u \in Users, k \in Keys, m \in Machines :
          /\ ( /\ u \in DOMAIN failed_attempts'
               /\ FailCount(failed_attempts', u) # FailCount(failed_attempts, u)
               /\ verify(u, k, m) )
             => ~HasLicenseKey(u, k)
          /\ ( /\ u \notin banned_users /\ ~PenaltyActive(u)
               /\ ~HasLicenseKey(u, k)
               /\ verify(u, k, m) )
             => FailureHandlingDecides(u)]_vars

\* The same, for the requests whose operator notification is delivered or
\* not attempted: the decision table itself is the one C2 states.
C2_WhenNotificationDelivered ==
    [][\A u \in Users, k \in Keys, m \in Machines :
          /\ ( /\ u \in DOMAIN failed_attempts'
               /\ FailCount(failed_attempts', u) # FailCount(failed_attempts, u)
               /\ verify(u, k, m) )
             => ~HasLicenseKey(u, k)
          /\ ( /\ u \notin banned_users /\ ~PenaltyActive(u)
               /\ ~HasLicenseKey(u, k)
               /\ resp' # InternalError
               /\ verify(u, k, m) )
             => FailureHandlingDecides(u)]_vars

\* C3 as stated: while a user is in the ban set every Verify call with all
\* three fields and every CheckStatus call for that user returns Banned and
\* changes no state, and the user leaves the ban set only by UnbanUser.
C3_BannedAlwaysRejected_AnyCheckStatus ==
    [][\A u \in Users : u \in banned_users =>
          /\ \A k \in Keys, m \in Machines :
                verify(u, k, m) =>
                   IsBannedAnswer(resp') /\ UNCHANGED store
          /\ \A m \in Machines \cup {Empty} :
                check_status(u, m) =>
                   IsBannedAnswer(resp') /\ UNCHANGED store
          /\ u \notin banned_users' => unban_user(u)]_vars

\* C3, amended: while a user is in the ban set every Verify call with all
\* three fields and every CheckStatus call with both fields for that user
\* returns Banned and changes no state, and the user leaves the ban set only
\* by UnbanUser.
C3_BannedAlwaysRejected ==
    [][\A u \in Users : u \in banned_users =>
          /\ \A k \in Keys, m \in Machines :
                verify(u, k, m) =>
                   IsBannedAnswer(resp') /\ UNCHANGED store
          /\ \A m \in Machines :
                check_status(u, m) =>
                   IsBannedAnswer(resp') /\ UNCHANGED store
          /\ u \notin banned_users' => unban_user(u)]_vars

\* A banned user who holds a license and a binding was answered Banned by
\* /verify on the ban check: no notification went out with the answer.
C3_Witness ==
    \E u \in Users :
        /\ u \in banned_users
        /\ u \in DOMAIN licenses /\ u \in DOMAIN machine_bindings
        /\ resp = BannedResponse /\ posted = "none" /\ WEBHOOK_URL

\* C4: whenever Verify returns Allowed for a user, that user has no penalty
\* state afterwards, whatever fail_count had accumulated.
C4_SuccessClearsPenalty ==
    [][\A u \in Users, k \in Keys, m \in Machines :
          IsAllowed(resp') /\ verify(u, k, m) =>
             u \notin DOMAIN failed_attempts' /\ u \notin banned_users]_vars

C4_Witness ==
    \E u \in Users :
        /\ IsAllowed(resp)
        /\ u \in DOMAIN machine_bindings
        /\ u \notin DOMAIN failed_attempts
        /\ now >= 2 * TicksPerSec

\* C5: the first Allowed Verify of an unbound user from machine M1 binds the
\* user to M1; a later Verify with the correct key from another machine (user
\* not banned, no active penalty) returns Denied(machine mismatch) and leaves
\* penalty state, ban set and binding as they were.
C5_BindThenMismatch ==
    [][\A u \in Users, k \in Keys, m \in Machines :
          /\ ( /\ u \notin DOMAIN machine_bindings
               /\ IsAllowed(resp')
               /\ verify(u, k, m) )
             => u \in DOMAIN machine_bindings' /\ machine_bindings'[u] = m
          /\ ( /\ u \in DOMAIN machine_bindings /\ machine_bindings[u] # m
               /\ HasLicenseKey(u, k)
               /\ u \notin banned_users /\ ~PenaltyActive(u)
               /\ verify(u, k, m) )
             => /\ IsMismatch(resp')
                /\ UNCHANGED <<failed_attempts, banned_users,
                               machine_bindings>>]_vars

\* A mismatch was answered to a bound user whose earlier failures are still
\* on record.
C5_Witness ==
    \E u \in Users :
        /\ IsMismatch(resp)
        /\ u \in DOMAIN machine_bindings
        /\ u \in DOMAIN failed_attempts /\ failed_attempts[u].count >= 2

\* C6: once a user has a machine binding no request or command changes or
\* removes it, and Verify never returns Allowed for that user from another
\* machine, whether the key is correct or not.
C6_BindingImmutable ==
    [][\A u \in Users : u \in DOMAIN machine_bindings =>
          /\ u \in DOMAIN machine_bindings'
          /\ machine_bindings'[u] = machine_bindings[u]
          /\ \A k \in Keys, m \in Machines :
                m # machine_bindings[u] /\ verify(u, k, m)
                   => ~IsAllowed(resp')]_vars

\* The binding is still there after the user's license was deleted.
C6_Witness ==
    \E u \in Users :
        /\ u \in DOMAIN machine_bindings
        /\ u \notin DOMAIN licenses
        /\ resp.status = "delete_license" /\ resp.reason = "deleted"

\* C9 as stated: for a non-banned user with penalty_end > now, Verify returns
\* RateLimited with the remaining time and does nothing else, whatever the
\* request holds.
C9_ActivePenaltyBlocks_AnyRequest ==
    [][\A u \in Users, k \in Keys \cup {Empty}, m \in Machines \cup {Empty} :
          u \notin banned_users /\ PenaltyActive(u) /\ verify(u, k, m) =>
             /\ IsRateLimited(resp',
                   (failed_attempts[u].penalty_end - now) \div TicksPerSec)
             /\ UNCHANGED store]_vars

\* C9, amended: for a non-banned user with penalty_end > now, a Verify with
\* all three fields present returns RateLimited with the remaining whole
\* seconds and does nothing else: fail_count, penalty_end, ban set and
\* bindings are unchanged, and a correct key yields neither Allowed nor a
\* binding nor a cleared penalty state.
C9_ActivePenaltyBlocks ==
    [][\A u \in Users, k \in Keys, m \in Machines :
          u \notin banned_users /\ PenaltyActive(u) /\ verify(u, k, m) =>
             /\ IsRateLimited(resp',
                   (failed_attempts[u].penalty_end - now) \div TicksPerSec)
             /\ posted' = "none"
             /\ UNCHANGED store]_vars

\* A licensed, unbound user under an active penalty was told to wait 1 s:
\* the answer came from the penalty check, not from a new tier.
C9_Witness ==
    \E u \in Users :
        /\ IsRateLimited(resp, 1)
        /\ PenaltyActive(u)
        /\ u \in DOMAIN licenses /\ u \notin DOMAIN machine_bindings
        /\ u \notin banned_users

\* C10: a Verify request in which user, key or machine is missing or empty is
\* answered BadRequest, with penalty state, ban set and bindings unchanged and
\* no notification, also when the user is banned or under an active penalty.
C10_BadRequestFirst ==
    [][\A u \in Users \cup {Empty}, k \in Keys \cup {Empty},
          m \in Machines \cup {Empty} :
          (u = Empty \/ k = Empty \/ m = Empty) /\ verify(u, k, m) =>
             /\ IsBadRequest(resp')
             /\ posted' = "none"
             /\ UNCHANGED store]_vars

\* BadRequest was answered while the user is banned and still has an active
\* penalty.
C10_Witness ==
    \E u \in Users :
        /\ resp = MissingResponse
        /\ u \in banned_users
        /\ PenaltyActive(u)

\* ===================================================================
\* Properties of simultaneous requests (SpecConcurrent)
\* ===================================================================
\* The request of thread t failed on the key and went through failure
\* handling for user u.
FailedFor(t, u) ==
    /\ pc[t] = "done"
    /\ request[t].user = u
    /\ ~HasLicenseKey(u, request[t].key)
    /\ local[t].attempt_count >= 1

\* C7: when N failing Verify requests for the same fresh user run
\* concurrently, fail_count ends at exactly N and at most one request sends
\* the ban notification.
C7_NoLostIncrement ==
    \A u \in Users :
        (\A t \in Threads : FailedFor(t, u)) =>
            /\ FailCount(failed_attempts, u) = NumThreads
            /\ Cardinality({t \in Threads : local[t].sent = "ban"}) <= 1

\* Thread t was told Allowed for a request with the right key.
AllowedFor(t, u) ==
    /\ pc[t] = "done"
    /\ request[t].user = u
    /\ HasLicenseKey(u, request[t].key)
    /\ IsAllowed(local[t].answer)

BothAllowed ==
    \E u \in Users : \E t1, t2 \in Threads :
        /\ request[t1].machine # request[t2].machine
        /\ AllowedFor(t1, u)
        /\ AllowedFor(t2, u)

\* C8: of two concurrent Verify requests with the correct key for a
\* never-bound user from different machines, never both return Allowed, and
\* the binding the first one wrote is never overwritten by the second.
C8_OneBindingWins ==
    [][/\ \A u \in Users : u \in DOMAIN machine_bindings =>
             machine_bindings'[u] = machine_bindings[u]
       /\ ~BothAllowed']_vars

\* ===================================================================
\* Further properties of the handlers, one request at a time (Spec)
\* ===================================================================
IsStatusAllowed(r) == r.code = 200 /\ r.status = "allowed"
IsStatusDenied(r) == r.code = 403 /\ r.status = "denied"

\* The decision of CheckStatus as a function of the ban set and the binding.
CheckStatusDecides(u, m) ==
    IF u \in banned_users THEN IsBannedAnswer(resp')
    ELSE IF u \in DOMAIN machine_bindings /\ machine_bindings[u] = m
         THEN IsStatusAllowed(resp')
    ELSE IsStatusDenied(resp')

\* C11 as stated: CheckStatus(user, machine) returns Banned if the user is in
\* the ban set, otherwise Allowed exactly when a binding exists and equals
\* machine, otherwise Denied, whatever the request holds; it changes no state.
C11_CheckStatusPure_AnyRequest ==
    [][\A u \in Users, m \in Machines \cup {Empty} :
          check_status(u, m) =>
             /\ CheckStatusDecides(u, m)
             /\ u \notin DOMAIN machine_bindings /\ u \notin banned_users
                   => IsStatusDenied(resp')
             /\ UNCHANGED store]_vars

\* C11, amended: a CheckStatus with both fields present returns Banned if the
\* user is in the ban set, otherwise Allowed exactly when a binding exists and
\* equals machine, otherwise Denied; an unbound user who is not banned is
\* answered Denied; the answer is decided by the ban set and the binding alone
\* (not by the license record or the penalty state), and penalty state, ban
\* set, bindings and licenses are unchanged.
C11_CheckStatusPure ==
    [][\A u \in Users, m \in Machines :
          check_status(u, m) =>
             /\ CheckStatusDecides(u, m)
             /\ u \notin DOMAIN machine_bindings /\ u \notin banned_users
                   => IsStatusDenied(resp')
             /\ posted' = "none"
             /\ UNCHANGED store]_vars

\* Allowed was answered to a bound user who has no license record and is
\* under an active penalty.
C11_Witness ==
    \E u \in Users :
        /\ IsStatusAllowed(resp)
        /\ u \notin DOMAIN licenses
        /\ PenaltyActive(u)
        /\ u \in DOMAIN machine_bindings

\* The penalty state of a user: nothing, or fail_count and penalty_end.
PenaltyStateOf(attempts, u) ==
    IF u \in DOMAIN attempts THEN {attempts[u]} ELSE {}

\* Verify goes through the penalty check, the key check and the binding
\* check, in that order.
NormalSteps(u, k, m) ==
    IF PenaltyActive(u) THEN
       IsRateLimited(resp',
          (failed_attempts[u].penalty_end - now) \div TicksPerSec)
    ELSE IF HasLicenseKey(u, k) THEN
       IF u \in DOMAIN machine_bindings /\ machine_bindings[u] # m
       THEN IsMismatch(resp')
       ELSE IsAllowed(resp')
    ELSE FailCount(failed_attempts', u) = FailCount(failed_attempts, u) + 1

\* C12: UnbanUser removes only the ban marker.  While a user is banned
\* nothing but ResetPenalty changes the user's fail_count and penalty_end,
\* and the unban itself leaves them (and licenses and bindings) as they are,
\* so they are after the unban what they were when the ban took effect; once
\* the user is out of the ban set, Verify is decided by the penalty check,
\* the key check and the binding check again.
C12_UnbanOnlyLiftsBan ==
    [][\A u \in Users :
          /\ ( /\ u \in banned_users
               /\ PenaltyStateOf(failed_attempts', u)
                     # PenaltyStateOf(failed_attempts, u) )
             => reset_penalty(u)
          /\ (u \in banned_users /\ unban_user(u))
             => /\ banned_users' = banned_users \ {u}
                /\ UNCHANGED <<licenses, machine_bindings, failed_attempts>>
          /\ \A k \in Keys, m \in Machines :
                (u \notin banned_users /\ verify(u, k, m))
                   => NormalSteps(u, k, m)]_vars

\* A user banned by the failure path has just been unbanned: the ban marker
\* is gone and the fail_count that caused the ban is still on record.
C12_Witness ==
    \E u \in Users :
        /\ resp.status = "unban_user" /\ resp.reason = "unbanned"
        /\ u \notin banned_users
        /\ FailCount(failed_attempts, u) > TierCount

\* What a failed attempt is answered: invalid key, a penalty, the ban, or the
\* server error of a request whose notification raised.
IsFailureAnswer(r) ==
    \/ IsInvalidKey(r)
    \/ r.code = 429 /\ r.status = "error"
    \/ IsBannedAnswer(r)
    \/ r = InternalError

\* C13 as stated: for a user with no license record, Verify never returns
\* Allowed and never creates a binding, and every such call that the ban
\* check does not answer Banned nor the penalty check RateLimited is a failed
\* attempt that adds 1 to fail_count, whatever the request holds.
C13_NoLicenseNoAccess_AnyRequest ==
    [][\A u \in Users, k \in Keys \cup {Empty}, m \in Machines \cup {Empty} :
          (u \notin DOMAIN licenses /\ verify(u, k, m)) =>
             /\ ~IsAllowed(resp')
             /\ machine_bindings' = machine_bindings
             /\ (u \notin banned_users /\ ~PenaltyActive(u)) =>
                   /\ FailCount(failed_attempts', u)
                         = FailCount(failed_attempts, u) + 1
                   /\ IsFailureAnswer(resp')]_vars

\* C13, amended: for a user with no license record, a Verify with all three
\* fields present never returns Allowed and never creates a binding; the ban
\* check answers Banned and the penalty check RateLimited without counting,
\* and every other such call is a failed attempt that adds 1 to fail_count.
C13_NoLicenseNoAccess ==
    [][\A u \in Users, k \in Keys, m \in Machines :
          (u \notin DOMAIN licenses /\ verify(u, k, m)) =>
             /\ ~IsAllowed(resp')
             /\ machine_bindings' = machine_bindings
             /\ IF u \in banned_users THEN
                   IsBannedAnswer(resp') /\ UNCHANGED failed_attempts
                ELSE IF PenaltyActive(u) THEN
                   resp'.code = 429 /\ UNCHANGED failed_attempts
                ELSE
                   /\ FailCount(failed_attempts', u)
                         = FailCount(failed_attempts, u) + 1
                   /\ IsFailureAnswer(resp')]_vars

\* An unlicensed, unbound user's second failed attempt was counted and
\* answered with the first penalty.
C13_Witness ==
    \E u \in Users :
        /\ u \notin DOMAIN licenses
        /\ u \notin DOMAIN machine_bindings
        /\ FailCount(failed_attempts, u) = 2
        /\ resp = BlockedResponse(ListItem(penalty_thresholds, 0))

\* The decision failure handling reaches for user u on the count it stores.
DecisionOfFailure(u) ==
    LET new == FailCount(failed_attempts, u) + 1
    IN IF new > TierCount THEN BannedResponse
       ELSE IF new > 1 THEN BlockedResponse(Tier(new))
       ELSE FailureResponse

\* C14: whether the operator notification of a failed Verify fails or
\* succeeds, the request returns the same Denied, RateLimited or Banned
\* decision and makes the same state change.
C14_NotificationNeverDecides ==
    [][\A u \in Users, k \in Keys, m \in Machines :
          ( /\ u \notin banned_users /\ ~PenaltyActive(u)
            /\ ~HasLicenseKey(u, k)
            /\ verify(u, k, m) )
          => /\ resp' = DecisionOfFailure(u)
             /\ FailCount(failed_attempts', u)
                   = FailCount(failed_attempts, u) + 1]_vars

\* C15: for a user who is banned or under an active penalty, a Verify step
\* with one key is also a Verify step with any other key: from the same state
\* and time the two requests get the same response and reach the same state,
\* and that state is the one they started from.
C15_BlockedHidesKey ==
    [][\A u \in Users, m \in Machines, k1 \in Keys, k2 \in Keys :
          ( /\ u \in banned_users \/ PenaltyActive(u)
            /\ k1 # k2
            /\ verify(u, k1, m) )
          => verify(u, k2, m) /\ UNCHANGED store]_vars

\* A licensed and bound user with 2 s of a penalty left was told to wait 2 s:
\* one of the keys the request could carry is the right one.
C15_Witness ==
    \E u \in Users :
        /\ u \in DOMAIN licenses /\ u \in DOMAIN machine_bindings
        /\ u \notin banned_users
        /\ PenaltyActive(u)
        /\ failed_attempts[u].penalty_end - now = 2 * TicksPerSec
        /\ IsRateLimited(resp, 2)

IsCommandReply(r, op) == r.code = 0 /\ r.status = op

\* C16: ResetPenalty(user) leaves the user with no penalty state whatever
\* the state was, and never changes the ban set, the bindings or the
\* licenses; for a user without penalty state it changes nothing and replies
\* as a command does, so a second ResetPenalty after a first changes nothing.
C16_ResetPenaltyIdempotent ==
    [][\A u \in Users :
          reset_penalty(u) =>
             /\ u \notin DOMAIN failed_attempts'
             /\ \A v \in Users \ {u} :
                   PenaltyStateOf(failed_attempts', v)
                      = PenaltyStateOf(failed_attempts, v)
             /\ UNCHANGED <<licenses, machine_bindings, banned_users>>
             /\ IsCommandReply(resp', "reset_penalty")
             /\ u \notin DOMAIN failed_attempts => UNCHANGED store]_vars

\* The penalty state of a banned, bound user has just been reset: the ban
\* and the binding are still there.
C16_Witness ==
    \E u \in Users :
        /\ resp.status = "reset_penalty" /\ resp.reason = "reset"
        /\ u \notin DOMAIN failed_attempts
        /\ u \in banned_users
        /\ u \in DOMAIN machine_bindings

\* C17: in every reachable state no user has both a penalty state and a ban
\* marker (the promotion to the ban set resets the penalty state).
C17_PenaltyOrBanNeverBoth ==
    \A u \in Users : ~(u \in DOMAIN failed_attempts /\ u \in banned_users)

\* The machine a user is bound to: nothing, or one machine.
BindingOf(bindings, u) ==
    IF u \in DOMAIN bindings THEN {bindings[u]} ELSE {}

\* C18: the stores start empty, and a user's binding comes into being or
\* changes only in a step that is a Verify of that user, so far unbound, with
\* the key of the license record present at that time, answered Allowed, and
\* the binding is the machine of that request; no other Verify, no
\* CheckStatus and no command creates a binding.
C18_BindingOnlyBySuccess ==
    /\ machine_bindings = EmptyDict
    /\ [][\A u \in Users :
             BindingOf(machine_bindings', u) # BindingOf(machine_bindings, u) =>
                /\ u \notin DOMAIN machine_bindings
                /\ \E k \in Keys, m \in Machines :
                      /\ HasLicenseKey(u, k)
                      /\ verify(u, k, m)
                      /\ IsAllowed(resp')
                      /\ BindingOf(machine_bindings', u) = {m}]_vars

\* A binding exists, made by the Allowed Verify that has just been answered
\* to a user whose earlier failures it cleared.
C18_Witness ==
    \E u \in Users :
        /\ u \in DOMAIN machine_bindings
        /\ u \in DOMAIN licenses
        /\ IsAllowed(resp)
        /\ u \notin DOMAIN failed_attempts
        /\ now = 0

\* The escalation starts over for user u: the stored fail_count falls from
\* above the tiers back into them.
LadderRestarts(u) ==
    /\ FailCount(failed_attempts, u) > TierCount
    /\ FailCount(failed_attempts', u) <= TierCount

\* C19: a user who is out of the ban set with a fail_count above the tier
\* count (banned by the failure path, then unbanned without ResetPenalty) is
\* put back into the ban set and answered Banned by the very next failed
\* Verify; only an Allowed Verify or ResetPenalty restarts the ladder.
C19_UnbannedFailsStraightToBan ==
    [][\A u \in Users :
          /\ \A k \in Keys, m \in Machines :
                ( /\ u \notin banned_users
                  /\ FailCount(failed_attempts, u) > TierCount
                  /\ ~HasLicenseKey(u, k)
                  /\ verify(u, k, m) )
                => u \in banned_users' /\ IsBannedAnswer(resp')
          /\ LadderRestarts(u) =>
                \/ reset_penalty(u)
                \/ \E k \in Keys, m \in Machines :
                      verify(u, k, m) /\ IsAllowed(resp')]_vars

\* The same, for the requests whose operator notification is delivered or
\* not attempted.
C19_WhenNotificationDelivered ==
    [][\A u \in Users :
          /\ \A k \in Keys, m \in Machines :
                ( /\ u \notin banned_users
                  /\ FailCount(failed_attempts, u) > TierCount
                  /\ ~HasLicenseKey(u, k)
                  /\ resp' # InternalError
                  /\ verify(u, k, m) )
                => u \in banned_users' /\ IsBannedAnswer(resp')
          /\ LadderRestarts(u) =>
                \/ reset_penalty(u)
                \/ \E k \in Keys, m \in Machines :
                      verify(u, k, m) /\ IsAllowed(resp')]_vars

\* A step that changes the license record of user u.
LicenseChanges(u) ==
    \/ delete_license(u)
    \/ clear_licenses
    \/ \E k \in Keys : update_license(u, k)
    \/ \E k \in Keys : generate_license(u, k)

\* C20 as stated: DeleteLicense, UpdateLicenseKey, clearing all licenses and
\* re-creating a license leave the binding unchanged; Verify with the correct
\* key from a machine other than the bound one returns Denied(machine
\* mismatch) and CheckStatus from the bound machine returns Allowed, licensed
\* or not, whatever the ban set and the penalty state hold.
C20_BindingOutlivesLicense_AnyState ==
    [][\A u \in Users :
          /\ LicenseChanges(u) =>
                BindingOf(machine_bindings', u) = BindingOf(machine_bindings, u)
          /\ \A k \in Keys, m \in Machines :
                ( /\ u \in DOMAIN machine_bindings /\ machine_bindings[u] # m
                  /\ HasLicenseKey(u, k)
                  /\ verify(u, k, m) )
                => IsMismatch(resp')
          /\ \A m \in Machines :
                ( /\ u \in DOMAIN machine_bindings /\ machine_bindings[u] = m
                  /\ check_status(u, m) )
                => IsStatusAllowed(resp')]_vars

\* C20, amended: DeleteLicense, UpdateLicenseKey, clearing all licenses and
\* re-creating a license leave the binding unchanged; for a user who is not
\* banned, Verify with the correct key from a machine other than the bound
\* one returns Denied(machine mismatch) unless a penalty is active, and
\* CheckStatus from the bound machine returns Allowed, licensed or not.
C20_BindingOutlivesLicense ==
    [][\A u \in Users :
          /\ LicenseChanges(u) =>
                BindingOf(machine_bindings', u) = BindingOf(machine_bindings, u)
          /\ \A k \in Keys, m \in Machines :
                ( /\ u \in DOMAIN machine_bindings /\ machine_bindings[u] # m
                  /\ HasLicenseKey(u, k)
                  /\ u \notin banned_users /\ ~PenaltyActive(u)
                  /\ verify(u, k, m) )
                => IsMismatch(resp')
          /\ \A m \in Machines :
                ( /\ u \in DOMAIN machine_bindings /\ machine_bindings[u] = m
                  /\ u \notin banned_users
                  /\ check_status(u, m) )
                => IsStatusAllowed(resp')]_vars

\* CheckStatus answered Allowed to a bound user whose license record is gone
\* and who has no failure on record.
C20_Witness ==
    \E u \in Users :
        /\ IsStatusAllowed(resp)
        /\ u \in DOMAIN machine_bindings
        /\ u \notin DOMAIN licenses
        /\ u \notin DOMAIN failed_attempts
        /\ u \notin banned_users
====
